---------------------------- MODULE Spec2Model ----------------------------
(***************************************************************************)
(* Model of src/leak-analyzer/scripts/leakage_calculator.py                *)
(* (class LeakageCalculator): the DMA store written by add_dma_data, and   *)
(* the calculations calculate_mnf, detect_pressure_anomaly,                *)
(* assess_leakage_status and generate_dma_report.                          *)
(*                                                                         *)
(* Numbers.  Python floats are modelled by exact rationals [n, d] in       *)
(* lowest terms with d > 0, so every comparison and every sum is the exact *)
(* real one; binary representation error of floats is outside the model.   *)
(* Exceptions.  A raised exception is the record [error |-> name]; every   *)
(* value a call returns is a record without an "error" field.              *)
(***************************************************************************)
EXTENDS Integers, Sequences, FiniteSets, TLC

VARIABLES
    dma_data,     \* self.dma_data: the mapping dma_id -> record
    dma_keys,     \* the insertion order of self.dma_data's keys (dict order)
    registered,   \* history: dma_id -> arguments of its latest add_dma_data
    work_orders,  \* WorkOrderStatistics: self.work_orders, the list of orders
    call,         \* the latest call: its name and arguments
    ret           \* what the latest call returned, or the exception it raised

vars == <<dma_data, dma_keys, registered, work_orders, call, ret>>

None == "None"

----------------------------------------------------------------------------
(* Bounds of the model *)

\* longest user_flows list passed to add_dma_data
MaxUserFlows == 2
\* longest flow_data list drawn freely for calculate_mnf
MaxFlowData == 2
\* longest pressure_data list drawn freely for detect_pressure_anomaly
MaxPressureData == 3

----------------------------------------------------------------------------
(* Exact arithmetic on rationals *)

Abs(x) == IF x < 0 THEN -x ELSE x

RECURSIVE GCD(_, _)
GCD(a, b) == IF b = 0 THEN a ELSE GCD(b, a % b)

\* the rational n/d (d # 0) in lowest terms with a positive denominator
Rat(n, d) ==
    LET g == GCD(Abs(n), Abs(d))
        s == IF d < 0 THEN -1 ELSE 1
    IN  [n |-> (s * n) \div g, d |-> (s * d) \div g]

Int2Rat(i) == [n |-> i, d |-> 1]
Zero == Int2Rat(0)

RatAdd(a, b) == Rat(a.n * b.d + b.n * a.d, a.d * b.d)
RatSub(a, b) == Rat(a.n * b.d - b.n * a.d, a.d * b.d)
RatMul(a, b) == Rat(a.n * b.n, a.d * b.d)
RatLt(a, b)  == a.n * b.d < b.n * a.d
RatLe(a, b)  == a.n * b.d <= b.n * a.d
RatGt(a, b)  == RatLt(b, a)
RatGe(a, b)  == RatLe(b, a)
RatAbs(a)    == [n |-> Abs(a.n), d |-> a.d]

IsError(v) == "error" \in DOMAIN v
\* a call whose arguments are given and that has not run yet
Pending == [pending |-> TRUE]
Returned(v) == "pending" \notin DOMAIN v
Raise(name) == [error |-> name]

\* Python's a / b on floats: ZeroDivisionError when b == 0
PyDiv(a, b) ==
    IF b.n = 0 THEN Raise("ZeroDivisionError") ELSE Rat(a.n * b.d, a.d * b.n)

\* Python's sum(xs): 0 + xs[0] + xs[1] + ...
RECURSIVE PySum(_)
PySum(xs) ==
    IF xs = <<>> THEN Zero
    ELSE RatAdd(PySum(SubSeq(xs, 1, Len(xs) - 1)), xs[Len(xs)])

\* Python's min(xs) of a non-empty list; ValueError on an empty one
RECURSIVE PyMin(_)
PyMin(xs) ==
    IF xs = <<>> THEN Raise("ValueError")
    ELSE IF Len(xs) = 1 THEN xs[1]
    ELSE LET m == PyMin(SubSeq(xs, 1, Len(xs) - 1))
         IN  IF RatLt(xs[Len(xs)], m) THEN xs[Len(xs)] ELSE m

RECURSIVE PyMax(_)
PyMax(xs) ==
    IF xs = <<>> THEN Raise("ValueError")
    ELSE IF Len(xs) = 1 THEN xs[1]
    ELSE LET m == PyMax(SubSeq(xs, 1, Len(xs) - 1))
         IN  IF RatGt(xs[Len(xs)], m) THEN xs[Len(xs)] ELSE m

RECURSIVE Pow10(_)
Pow10(k) == IF k = 0 THEN 1 ELSE 10 * Pow10(k - 1)

\* floor of the rational n/d, d > 0
Floor(n, d) == IF n >= 0 THEN n \div d ELSE -((-n + d - 1) \div d)

\* Python's round(x, digits): the nearest multiple of 10^-digits, a tie going
\* to the even multiple
PyRound(x, digits) ==
    LET p  == Pow10(digits)
        sn == x.n * p
        f  == Floor(sn, x.d)
        r2 == 2 * (sn - f * x.d)
        k  == IF r2 < x.d THEN f
              ELSE IF r2 > x.d THEN f + 1
              ELSE IF f % 2 = 0 THEN f ELSE f + 1
    IN  Rat(k, p)

\* all sequences over S of length at most n
SeqsUpTo(S, n) == UNION {[1..k -> S] : k \in 0..n}

----------------------------------------------------------------------------
(* add_dma_data *)

\* the dma_id values of the model
ZoneIds == {"DMA-001", "DMA-002"}

\* total_flow arguments: a negative one, zero and a positive one
TotalFlows == {Int2Rat(-12), Int2Rat(0), Int2Rat(12)}

\* elements of user_flows: against the total 12 their sums give the rates
\* 100, 91.67, 83.33, 25 and 16.67 and, above 12, negative rates
UserFlowValues == {Int2Rat(1), Int2Rat(9)}

\* a variant of leakage_of with the sign slipped
leakage_of_sign_slip(total_flow, user_total) == RatAdd(total_flow, user_total)

\* leakage = total_flow - user_total
leakage_of(total_flow, user_total) == RatSub(total_flow, user_total)

\* a variant of leakage_rate_of without the total_flow > 0 guard
leakage_rate_unguarded(leakage, total_flow) ==
    LET q == PyDiv(leakage, total_flow)
    IN  IF IsError(q) THEN q ELSE RatMul(q, Int2Rat(100))

\* a variant of leakage_rate_of that divides whenever total_flow is not 0
leakage_rate_nonzero_guard(leakage, total_flow) ==
    IF total_flow # Zero
    THEN LET q == PyDiv(leakage, total_flow)
         IN  IF IsError(q) THEN q ELSE RatMul(q, Int2Rat(100))
    ELSE Zero

\* leakage_rate = (leakage / total_flow * 100) if total_flow > 0 else 0
leakage_rate_of(leakage, total_flow) ==
    IF RatGt(total_flow, Zero)
    THEN LET q == PyDiv(leakage, total_flow)
         IN  IF IsError(q) THEN q ELSE RatMul(q, Int2Rat(100))
    ELSE Zero

\* the record add_dma_data builds, or the exception its arithmetic raises
dma_record(total_flow, user_flows) ==
    LET user_total   == PySum(user_flows)
        leakage      == leakage_of(total_flow, user_total)
        leakage_rate == leakage_rate_of(leakage, total_flow)
    IN  IF IsError(leakage_rate) THEN leakage_rate
        ELSE [total_flow   |-> total_flow,
              user_total   |-> user_total,
              user_flows   |-> user_flows,
              leakage      |-> leakage,
              leakage_rate |-> leakage_rate]

\* a variant of store_put that merges a re-registration into the record it
\* finds
store_merge(store, dma_id, rec) ==
    [k \in DOMAIN store \cup {dma_id} |->
        IF k # dma_id THEN store[k]
        ELSE IF dma_id \in DOMAIN store
             THEN dma_record(RatAdd(store[k].total_flow, rec.total_flow),
                             store[k].user_flows \o rec.user_flows)
             ELSE rec]

\* self.dma_data[dma_id] = {...}
store_put(store, dma_id, rec) ==
    [k \in DOMAIN store \cup {dma_id} |-> IF k = dma_id THEN rec ELSE store[k]]

\* the key order of the dict after self.dma_data[dma_id] = ...
keys_put(keys, dma_id) ==
    IF \E i \in 1..Len(keys) : keys[i] = dma_id THEN keys ELSE Append(keys, dma_id)

AddDmaData ==
    \E dma_id \in ZoneIds, total_flow \in TotalFlows,
       user_flows \in SeqsUpTo(UserFlowValues, MaxUserFlows) :
        LET rec == dma_record(total_flow, user_flows)
        IN  /\ call' = [op |-> "add_dma_data", dma_id |-> dma_id,
                        total_flow |-> total_flow, user_flows |-> user_flows]
            /\ IF IsError(rec)
               THEN /\ ret' = rec
                    /\ UNCHANGED <<work_orders, dma_data, dma_keys, registered>>
               ELSE /\ dma_data' = store_put(dma_data, dma_id, rec)
                    /\ dma_keys' = keys_put(dma_keys, dma_id)
                    /\ registered' =
                         [k \in DOMAIN registered \cup {dma_id} |->
                             IF k = dma_id
                             THEN [total_flow |-> total_flow,
                                   user_flows |-> user_flows]
                             ELSE registered[k]]
                    /\ ret' = [value |-> None]
                    /\ UNCHANGED work_orders

----------------------------------------------------------------------------
(* assess_leakage_status *)

\* the tier boundaries of the if/elif chain
TierGood == 10
TierWarning == 15
TierCritical == 25
\* the cutoffs of the urgency expression
UrgencyHigh == 25
UrgencyMedium == 15

\* the level and urgency labels stand for the source's Chinese strings:
\* level "A".."D" for the four level texts, urgency "high"/"medium"/"low"
\* for its three urgency texts; action is named by the tier it belongs to

\* a variant of assess_leakage_status with <= in place of < in its chain
assess_leakage_status_upper_inclusive(leakage_rate) ==
    LET tier ==
          IF RatLe(leakage_rate, Int2Rat(TierGood)) THEN
              [status |-> "excellent", level |-> "A", action |-> "maintain"]
          ELSE IF RatLe(leakage_rate, Int2Rat(TierWarning)) THEN
              [status |-> "good", level |-> "B", action |-> "watch"]
          ELSE IF RatLe(leakage_rate, Int2Rat(TierCritical)) THEN
              [status |-> "warning", level |-> "C", action |-> "investigate"]
          ELSE
              [status |-> "critical", level |-> "D", action |-> "detect_now"]
    IN  [status  |-> tier.status,
         level   |-> tier.level,
         action  |-> tier.action,
         urgency |-> IF RatGe(leakage_rate, Int2Rat(UrgencyHigh)) THEN "high"
                     ELSE IF RatGe(leakage_rate, Int2Rat(UrgencyMedium)) THEN "medium"
                     ELSE "low"]

\* a variant of assess_leakage_status with > in place of >= in its urgency
assess_leakage_status_urgency_exclusive(leakage_rate) ==
    LET tier ==
          IF RatLt(leakage_rate, Int2Rat(TierGood)) THEN
              [status |-> "excellent", level |-> "A", action |-> "maintain"]
          ELSE IF RatLt(leakage_rate, Int2Rat(TierWarning)) THEN
              [status |-> "good", level |-> "B", action |-> "watch"]
          ELSE IF RatLt(leakage_rate, Int2Rat(TierCritical)) THEN
              [status |-> "warning", level |-> "C", action |-> "investigate"]
          ELSE
              [status |-> "critical", level |-> "D", action |-> "detect_now"]
    IN  [status  |-> tier.status,
         level   |-> tier.level,
         action  |-> tier.action,
         urgency |-> IF RatGt(leakage_rate, Int2Rat(UrgencyHigh)) THEN "high"
                     ELSE IF RatGt(leakage_rate, Int2Rat(UrgencyMedium)) THEN "medium"
                     ELSE "low"]

\* the if/elif chain for status, level and action, and the expression for
\* urgency
assess_leakage_status(leakage_rate) ==
    LET tier ==
          IF RatLt(leakage_rate, Int2Rat(TierGood)) THEN
              [status |-> "excellent", level |-> "A", action |-> "maintain"]
          ELSE IF RatLt(leakage_rate, Int2Rat(TierWarning)) THEN
              [status |-> "good", level |-> "B", action |-> "watch"]
          ELSE IF RatLt(leakage_rate, Int2Rat(TierCritical)) THEN
              [status |-> "warning", level |-> "C", action |-> "investigate"]
          ELSE
              [status |-> "critical", level |-> "D", action |-> "detect_now"]
    IN  [status  |-> tier.status,
         level   |-> tier.level,
         action  |-> tier.action,
         urgency |-> IF RatGe(leakage_rate, Int2Rat(UrgencyHigh)) THEN "high"
                     ELSE IF RatGe(leakage_rate, Int2Rat(UrgencyMedium)) THEN "medium"
                     ELSE "low"]

\* leakage_rate arguments: every tenth of a percent from -MaxRateTenths/10
\* to MaxRateTenths/10, and 14.999
MaxRateTenths == 300
RateInputs ==
    {Rat(k, 10) : k \in -MaxRateTenths..MaxRateTenths} \cup {Rat(14999, 1000)}

AssessLeakageStatus ==
    /\ call.op = "assess_leakage_status"
    /\ ~Returned(ret)
    /\ ret' = assess_leakage_status(call.leakage_rate)
    /\ UNCHANGED <<work_orders, dma_data, dma_keys, registered, call>>

----------------------------------------------------------------------------
(* generate_dma_report *)

\* the cutoff of the summary's count of critical zones
CriticalCutoff == 25

\* a variant of PyMean that answers 0 for an empty list
PyMean_zero_on_empty(xs) ==
    IF xs = <<>> THEN Zero ELSE PyDiv(PySum(xs), Int2Rat(Len(xs)))

\* statistics.mean(xs): StatisticsError on an empty list
PyMean(xs) ==
    IF xs = <<>> THEN Raise("StatisticsError")
    ELSE PyDiv(PySum(xs), Int2Rat(Len(xs)))

\* f"{x:.2f}": x to two decimals
Fmt2(x) == PyRound(x, 2)

\* "if dma_id": None and the empty string are false
Truthy(dma_id) == dma_id # None /\ dma_id # ""

\* the dma_id arguments of generate_dma_report
LookupIds == ZoneIds \cup {"DMA-999", None}

\* the lines the loop appends for one zone
report_section(store, dma) ==
    LET data       == store[dma]
        assessment == assess_leakage_status(data.leakage_rate)
    IN  [dma          |-> dma,
         total_flow   |-> Fmt2(data.total_flow),
         user_total   |-> Fmt2(data.user_total),
         leakage      |-> Fmt2(data.leakage),
         leakage_rate |-> Fmt2(data.leakage_rate),
         level        |-> assessment.level,
         action       |-> assessment.action,
         urgency      |-> assessment.urgency]

RECURSIVE report_sections(_, _)
\* for dma in dmas: skip it when it is not in self.dma_data, else list it
report_sections(store, dmas) ==
    IF dmas = <<>> THEN <<>>
    ELSE LET rest == report_sections(store, SubSeq(dmas, 1, Len(dmas) - 1))
             dma  == dmas[Len(dmas)]
         IN  IF dma \notin DOMAIN store THEN rest
             ELSE Append(rest, report_section(store, dma))

\* [d[field] for d in self.dma_data.values()]
store_values(store, keys, field) ==
    [i \in 1..Len(keys) |-> store[keys[i]][field]]

\* a variant of report_summary whose average weights each zone by its flow
report_summary_flow_weighted(store, keys) ==
    LET rates   == store_values(store, keys, "leakage_rate")
        leakage == PySum(store_values(store, keys, "leakage"))
        total   == PySum(store_values(store, keys, "total_flow"))
    IN  [total_dmas       |-> Len(keys),
         avg_leakage_rate |->
             IF total = Zero THEN Zero
             ELSE Fmt2(RatMul(PyDiv(leakage, total), Int2Rat(100))),
         total_leakage    |-> Fmt2(leakage),
         critical_count   |->
             Cardinality({i \in 1..Len(rates) :
                             RatGe(rates[i], Int2Rat(CriticalCutoff))})]

\* a variant of report_summary that counts a zone only above the cutoff
report_summary_cutoff_exclusive(store, keys) ==
    LET rates == store_values(store, keys, "leakage_rate")
    IN  [total_dmas       |-> Len(keys),
         avg_leakage_rate |-> Fmt2(PyMean(rates)),
         total_leakage    |-> Fmt2(PySum(store_values(store, keys, "leakage"))),
         critical_count   |->
             Cardinality({i \in 1..Len(rates) :
                             RatGt(rates[i], Int2Rat(CriticalCutoff))})]

\* the summary block, computed over every record of the store
report_summary(store, keys) ==
    LET rates == store_values(store, keys, "leakage_rate")
    IN  [total_dmas       |-> Len(keys),
         avg_leakage_rate |-> Fmt2(PyMean(rates)),
         total_leakage    |-> Fmt2(PySum(store_values(store, keys, "leakage"))),
         critical_count   |->
             Cardinality({i \in 1..Len(rates) :
                             RatGe(rates[i], Int2Rat(CriticalCutoff))})]

\* a variant of generate_dma_report whose summary covers the listed zones only
generate_dma_report_summary_of_listed(store, keys, dma_id) ==
    LET dmas   == IF Truthy(dma_id) THEN <<dma_id>> ELSE keys
        listed == SelectSeq(dmas, LAMBDA dma : dma \in DOMAIN store)
    IN  [sections |-> report_sections(store, dmas),
         summary  |-> IF Len(listed) > 0
                      THEN <<report_summary(store, listed)>>
                      ELSE <<>>]

\* the report: the sections listed, then the summary block when the store is
\* not empty (summary is a sequence of no or one block)
generate_dma_report(store, keys, dma_id) ==
    LET dmas == IF Truthy(dma_id) THEN <<dma_id>> ELSE keys
    IN  [sections |-> report_sections(store, dmas),
         summary  |-> IF Len(keys) > 0
                      THEN <<report_summary(store, keys)>>
                      ELSE <<>>]

GenerateDmaReport ==
    \E dma_id \in LookupIds :
        /\ call' = [op |-> "generate_dma_report", dma_id |-> dma_id]
        /\ ret' = generate_dma_report(dma_data, dma_keys, dma_id)
        /\ UNCHANGED <<work_orders, dma_data, dma_keys, registered>>

----------------------------------------------------------------------------
(* export_dma_report *)

\* a variant of export_summary without the "if self.dma_data" guards
export_summary_unguarded(store, keys) ==
    LET avg == PyMean(store_values(store, keys, "leakage_rate"))
    IN  IF IsError(avg) THEN avg
        ELSE [total_dmas       |-> Len(keys),
              avg_leakage_rate |-> PyRound(avg, 2),
              total_leakage    |->
                  PyRound(PySum(store_values(store, keys, "leakage")), 2)]

\* report_data['summary']: three fields, the two numbers 0 for an empty store
export_summary(store, keys) ==
    LET avg == IF keys # <<>>
               THEN PyMean(store_values(store, keys, "leakage_rate"))
               ELSE Zero
    IN  IF IsError(avg) THEN avg
        ELSE [total_dmas       |-> Len(keys),
              avg_leakage_rate |-> IF keys # <<>> THEN PyRound(avg, 2) ELSE Zero,
              total_leakage    |->
                  IF keys # <<>>
                  THEN PyRound(PySum(store_values(store, keys, "leakage")), 2)
                  ELSE Zero]

\* export_dma_report returns None; file is the report_data it dumps to
\* output_file.  The timestamp is the clock's text at the call, "now" here;
\* failures of open() and of the file system are not modelled.
export_dma_report(store, keys) ==
    LET summary == export_summary(store, keys)
    IN  IF IsError(summary) THEN summary
        ELSE [value |-> None,
              file  |-> [timestamp |-> "now",
                         dma_data  |-> store,
                         summary   |-> summary]]

\* the default output_file
DefaultOutputFile == "dma_leakage_report.json"

ExportDmaReport ==
    \E output_file \in {DefaultOutputFile} :
        /\ call' = [op |-> "export_dma_report", output_file |-> output_file]
        /\ ret' = export_dma_report(dma_data, dma_keys)
        /\ UNCHANGED <<work_orders, dma_data, dma_keys, registered>>

----------------------------------------------------------------------------
(* detect_pressure_anomaly *)

\* a "HH:MM" text is the sequence of its characters
T0800 == <<"0", "8", ":", "0", "0">>
T0900 == <<"0", "9", ":", "0", "0">>
T1000 == <<"1", "0", ":", "0", "0">>
T1100 == <<"1", "1", ":", "0", "0">>
T1200 == <<"1", "2", ":", "0", "0">>

\* float(x) of a number x: the same number
PyFloat(x) == x

RECURSIVE ISqrtFrom(_, _)
ISqrtFrom(m, s) == IF (s + 1) * (s + 1) > m THEN s ELSE ISqrtFrom(m, s + 1)

RECURSIVE ISqrtBetween(_, _, _)
\* the largest s in lo..hi with s * s <= m, given lo * lo <= m
ISqrtBetween(m, lo, hi) ==
    IF lo = hi THEN lo
    ELSE LET mid == (lo + hi + 1) \div 2
         IN  IF mid * mid <= m THEN ISqrtBetween(m, mid, hi)
             ELSE ISqrtBetween(m, lo, mid - 1)

\* the largest s with s * s <= m
ISqrt(m) == ISqrtBetween(m, 0, IF m < 46340 THEN m ELSE 46340)

\* round(sqrt(q), 3) for a rational q >= 0: the k/1000 nearest to the root,
\* i.e. the largest k with (2k - 1)^2 <= 4 * 10^6 * q
RoundSqrt3(q) == Rat((ISqrt((4000000 * q.n) \div q.d) + 1) \div 2, 1000)

RECURSIVE SumSqDev(_, _)
\* the sum of (x - c)^2 over xs
SumSqDev(xs, c) ==
    IF xs = <<>> THEN Zero
    ELSE LET dx == RatSub(xs[Len(xs)], c)
         IN  RatAdd(SumSqDev(SubSeq(xs, 1, Len(xs) - 1), c), RatMul(dx, dx))

\* round(statistics.stdev(xs), 3) for two or more values: the root of the
\* sum of squared deviations from the mean over n - 1
RoundStdev3(xs) ==
    RoundSqrt3(PyDiv(SumSqDev(xs, PyMean(xs)), Int2Rat(Len(xs) - 1)))

\* deviation = abs(pressure - avg_pressure) / avg_pressure if avg_pressure > 0 else 0
relative_deviation(pressure, avg_pressure) ==
    IF RatGt(avg_pressure, Zero)
    THEN PyDiv(RatAbs(RatSub(pressure, avg_pressure)), avg_pressure)
    ELSE Zero

\* a variant of is_anomaly with >= in place of >
is_anomaly_inclusive(deviation, threshold) == RatGe(deviation, threshold)

\* if deviation > threshold
is_anomaly(deviation, threshold) == RatGt(deviation, threshold)

RECURSIVE find_anomalies_one_based(_, _, _, _)
\* a variant of find_anomalies that numbers the samples from 1
find_anomalies_one_based(pressure_data, avg_pressure, threshold, upto) ==
    IF upto = 0 THEN <<>>
    ELSE LET rest      == find_anomalies_one_based(pressure_data, avg_pressure,
                                                   threshold, upto - 1)
             data      == pressure_data[upto]
             pressure  == PyFloat(data.pressure)
             deviation == relative_deviation(pressure, avg_pressure)
         IN  IF is_anomaly(deviation, threshold)
             THEN Append(rest,
                    [index        |-> upto,
                     time         |-> data.time,
                     pressure     |-> pressure,
                     avg_pressure |-> PyRound(avg_pressure, 3),
                     deviation    |-> PyRound(RatMul(deviation, Int2Rat(100)), 2),
                     type         |-> IF RatLt(pressure, avg_pressure)
                                      THEN "low" ELSE "high"])
             ELSE rest

RECURSIVE find_anomalies(_, _, _, _)
\* the loop over enumerate(pressure_data), up to the sample at position upto
find_anomalies(pressure_data, avg_pressure, threshold, upto) ==
    IF upto = 0 THEN <<>>
    ELSE LET rest      == find_anomalies(pressure_data, avg_pressure,
                                         threshold, upto - 1)
             data      == pressure_data[upto]
             pressure  == PyFloat(data.pressure)
             deviation == relative_deviation(pressure, avg_pressure)
         IN  IF is_anomaly(deviation, threshold)
             THEN Append(rest,
                    [index        |-> upto - 1,
                     time         |-> data.time,
                     pressure     |-> pressure,
                     avg_pressure |-> PyRound(avg_pressure, 3),
                     deviation    |-> PyRound(RatMul(deviation, Int2Rat(100)), 2),
                     type         |-> IF RatLt(pressure, avg_pressure)
                                      THEN "low" ELSE "high"])
             ELSE rest

detect_pressure_anomaly(pressure_data, threshold) ==
    LET pressures ==
            [i \in 1..Len(pressure_data) |-> PyFloat(pressure_data[i].pressure)]
        avg_pressure == PyMean(pressures)
        min_pressure == PyMin(pressures)
        max_pressure == PyMax(pressures)
    IN  IF IsError(avg_pressure) THEN avg_pressure
        ELSE IF IsError(min_pressure) THEN min_pressure
        ELSE IF IsError(max_pressure) THEN max_pressure
        ELSE LET anomalies == find_anomalies(pressure_data, avg_pressure,
                                             threshold, Len(pressure_data))
             IN  [avg_pressure  |-> PyRound(avg_pressure, 3),
                  std_pressure  |-> IF Len(pressures) > 1
                                    THEN RoundStdev3(pressures) ELSE Zero,
                  min_pressure  |-> PyRound(min_pressure, 3),
                  max_pressure  |-> PyRound(max_pressure, 3),
                  anomalies     |-> anomalies,
                  anomaly_count |-> Len(anomalies)]

\* the pressure series of main
MainPressureData ==
    << [time |-> T0800, pressure |-> Rat(48, 100)],
       [time |-> T0900, pressure |-> Rat(47, 100)],
       [time |-> T1000, pressure |-> Rat(32, 100)],
       [time |-> T1100, pressure |-> Rat(46, 100)],
       [time |-> T1200, pressure |-> Rat(47, 100)] >>

\* the samples series are drawn from: two clock times, and pressures that
\* are negative, zero and positive
PressureTimes == {T0800, T0900}
PressureValues == {Int2Rat(-3), Int2Rat(-1), Int2Rat(0), Int2Rat(1), Int2Rat(3)}
PressureSeries ==
    SeqsUpTo([time : PressureTimes, pressure : PressureValues], MaxPressureData)
        \cup {MainPressureData}

\* the default threshold 0.15
DefaultThreshold == Rat(15, 100)
\* threshold arguments: the default, one that some deviations equal, zero and
\* a negative one
Thresholds == {DefaultThreshold, Rat(1, 2), Zero, Rat(-1, 4)}

DetectPressureAnomaly ==
    /\ call.op = "detect_pressure_anomaly"
    /\ ~Returned(ret)
    /\ ret' = detect_pressure_anomaly(call.pressure_data, call.threshold)
    /\ UNCHANGED <<work_orders, dma_data, dma_keys, registered, call>>

----------------------------------------------------------------------------
(* calculate_mnf *)

Digits == {"0", "1", "2", "3", "4", "5", "6", "7", "8", "9"}

DigitValue(c) ==
    CASE c = "0" -> 0 [] c = "1" -> 1 [] c = "2" -> 2 [] c = "3" -> 3
      [] c = "4" -> 4 [] c = "5" -> 5 [] c = "6" -> 6 [] c = "7" -> 7
      [] c = "8" -> 8 [] c = "9" -> 9

\* the positions of sep in the text s
Positions(s, sep) == {i \in 1..Len(s) : s[i] = sep}

Min(S) == CHOOSE x \in S : \A y \in S : x <= y

\* s.split(':')[0]: the text before the first ':', all of s when it has none
split_first(s) ==
    IF Positions(s, ":") = {} THEN s
    ELSE SubSeq(s, 1, Min(Positions(s, ":")) - 1)

RECURSIVE LStrip(_)
LStrip(s) == IF s # <<>> /\ s[1] = " " THEN LStrip(Tail(s)) ELSE s

RECURSIVE RStrip(_)
RStrip(s) ==
    IF s # <<>> /\ s[Len(s)] = " " THEN RStrip(SubSeq(s, 1, Len(s) - 1)) ELSE s

\* the text of an unsigned integer literal: digits, with single underscores
\* allowed between them
IsDigitText(s) ==
    /\ s # <<>>
    /\ \A i \in 1..Len(s) : s[i] \in Digits \cup {"_"}
    /\ s[1] \in Digits /\ s[Len(s)] \in Digits
    /\ \A i \in 1..(Len(s) - 1) : ~(s[i] = "_" /\ s[i + 1] = "_")

RECURSIVE DigitTextValue(_)
DigitTextValue(s) ==
    IF s = <<>> THEN 0
    ELSE LET front == DigitTextValue(SubSeq(s, 1, Len(s) - 1))
         IN  IF s[Len(s)] = "_" THEN front
             ELSE 10 * front + DigitValue(s[Len(s)])

\* int(s) of a text s: surrounding blanks dropped, an optional sign, then an
\* integer literal; ValueError for any other text.  The value returned is the
\* record [int |-> value].
PyInt(s) ==
    LET t      == RStrip(LStrip(s))
        signed == t # <<>> /\ t[1] \in {"+", "-"}
        body   == IF signed THEN Tail(t) ELSE t
    IN  IF ~IsDigitText(body) THEN Raise("ValueError")
        ELSE [int |-> IF signed /\ t[1] = "-"
                      THEN -DigitTextValue(body) ELSE DigitTextValue(body)]

\* hour = int(data['time'].split(':')[0])
hour_of(time) == PyInt(split_first(time))

\* a variant of in_window that takes in the end hour
in_window_end_inclusive(hour, hour_range) ==
    hour_range[1] <= hour /\ hour <= hour_range[2]

\* hour_range[0] <= hour < hour_range[1]
in_window(hour, hour_range) ==
    hour_range[1] <= hour /\ hour < hour_range[2]

RECURSIVE filter_flows(_, _, _)
\* the loop that fills filtered_data, up to the sample at position upto: the
\* list, or the ValueError of the first time that does not parse
filter_flows(flow_data, hour_range, upto) ==
    IF upto = 0 THEN [list |-> <<>>]
    ELSE LET before == filter_flows(flow_data, hour_range, upto - 1)
             data   == flow_data[upto]
             hour   == hour_of(data.time)
         IN  IF IsError(before) THEN before
             ELSE IF IsError(hour) THEN hour
             ELSE IF in_window(hour.int, hour_range)
                  THEN [list |-> Append(before.list, PyFloat(data.flow))]
                  ELSE before

\* the dict returned for an empty filtered_data: it has no 'flow_values'
empty_result == [mnf |-> Zero, avg_flow |-> Zero, data_points |-> 0]

\* a variant of mnf_result that takes the largest selected value as mnf
mnf_result_of_max(filtered_data) ==
    LET mnf      == PyMax(filtered_data)
        avg_flow == PyDiv(PySum(filtered_data), Int2Rat(Len(filtered_data)))
    IN  [mnf         |-> PyRound(mnf, 2),
         avg_flow    |-> PyRound(avg_flow, 2),
         data_points |-> Len(filtered_data),
         flow_values |-> [i \in 1..Len(filtered_data) |->
                             PyRound(filtered_data[i], 2)]]

\* the dict returned for a non-empty filtered_data
mnf_result(filtered_data) ==
    LET mnf      == PyMin(filtered_data)
        avg_flow == PyDiv(PySum(filtered_data), Int2Rat(Len(filtered_data)))
    IN  [mnf         |-> PyRound(mnf, 2),
         avg_flow    |-> PyRound(avg_flow, 2),
         data_points |-> Len(filtered_data),
         flow_values |-> [i \in 1..Len(filtered_data) |->
                             PyRound(filtered_data[i], 2)]]

calculate_mnf(flow_data, hour_range) ==
    LET filtered == filter_flows(flow_data, hour_range, Len(flow_data))
    IN  IF IsError(filtered) THEN filtered
        ELSE IF filtered.list = <<>> THEN empty_result
        ELSE mnf_result(filtered.list)

T0000 == <<"0", "0", ":", "0", "0">>
T0030 == <<"0", "0", ":", "3", "0">>
T0100 == <<"0", "1", ":", "0", "0">>
T0130 == <<"0", "1", ":", "3", "0">>
T0200 == <<"0", "2", ":", "0", "0">>
T0230 == <<"0", "2", ":", "3", "0">>
T0300 == <<"0", "3", ":", "0", "0">>
T0330 == <<"0", "3", ":", "3", "0">>
T0400 == <<"0", "4", ":", "0", "0">>
T0430 == <<"0", "4", ":", "3", "0">>
\* texts that are not "HH:MM": one with no separator, one with no digits
T0230NoColon == <<"0", "2", "3", "0">>
TabColon00 == <<"a", "b", ":", "0", "0">>

\* the flow series of main
MainFlowData ==
    << [time |-> T0000, flow |-> Rat(1805, 10)],
       [time |-> T0030, flow |-> Rat(1752, 10)],
       [time |-> T0100, flow |-> Rat(1708, 10)],
       [time |-> T0130, flow |-> Rat(1685, 10)],
       [time |-> T0200, flow |-> Rat(1652, 10)],
       [time |-> T0230, flow |-> Rat(1648, 10)],
       [time |-> T0300, flow |-> Rat(1665, 10)],
       [time |-> T0330, flow |-> Rat(1682, 10)],
       [time |-> T0400, flow |-> Rat(1725, 10)],
       [time |-> T0430, flow |-> Rat(1808, 10)] >>

\* three samples in the window 2..4 with the flows 10, 8 and 12, and one at
\* 04:00
ExampleFlowData ==
    << [time |-> T0200, flow |-> Int2Rat(10)],
       [time |-> T0230, flow |-> Int2Rat(8)],
       [time |-> T0300, flow |-> Int2Rat(12)],
       [time |-> T0400, flow |-> Int2Rat(5)] >>

\* the samples series are drawn from
MnfTimes == {T0130, T0200, T0330, T0400, T0230NoColon, TabColon00}
FlowValues == {Int2Rat(8), Int2Rat(10), Rat(8456, 1000)}
FlowSeries ==
    SeqsUpTo([time : MnfTimes, flow : FlowValues], MaxFlowData)
        \cup {MainFlowData, ExampleFlowData}

\* the default hour_range (2, 4)
DefaultHourRange == <<2, 4>>
HourRanges == {DefaultHourRange, <<0, 2>>}

\* a variant of CalculateMnf that keeps the series of the call in the store
CalculateMnf_retaining ==
    /\ call.op = "calculate_mnf"
    /\ ~Returned(ret)
    /\ ret' = calculate_mnf(call.flow_data, call.hour_range)
    /\ dma_data' = store_put(dma_data, "flow_data", call.flow_data)
    /\ UNCHANGED <<work_orders, dma_keys, registered, call>>

CalculateMnf ==
    /\ call.op = "calculate_mnf"
    /\ ~Returned(ret)
    /\ ret' = calculate_mnf(call.flow_data, call.hour_range)
    /\ UNCHANGED <<work_orders, dma_data, dma_keys, registered, call>>

----------------------------------------------------------------------------

(* WorkOrderStatistics: add_work_order, group_by_type,
   calculate_personnel_performance *)

\* most orders the list holds
MaxWorkOrders == 2

\* the texts of the source, by name: "completed" and "in_progress" for its two
\* status texts, "emergency" and "repair" for two of its type texts, "other"
\* and "unknown" for the defaults of type and staff
Completed == "completed"
InProgress == "in_progress"
OtherType == "other"
UnknownStaff == "unknown"
OrderTypes == {"emergency", "repair"}
StaffNames == {"Zhang", "Li"}
DurationHours == {Int2Rat(3), Int2Rat(8)}

\* the orders added: orders with type, status, staff and duration_hours, and
\* two orders that leave keys out
WorkOrders ==
    [type : OrderTypes, status : {Completed, InProgress},
     staff : StaffNames, duration_hours : DurationHours]
        \cup {[status |-> Completed], [type |-> "repair", staff |-> "Zhang"]}

\* wo.get(key, default)
Get(wo, key, default) == IF key \in DOMAIN wo THEN wo[key] ELSE default

\* [wo.get('duration_hours', 0) for wo in orders]
durations_of(orders) ==
    [i \in 1..Len(orders) |-> Get(orders[i], "duration_hours", Zero)]

\* wo.get('status') == the text for completed
is_completed(wo) == Get(wo, "status", None) = Completed

\* the dict group_by_type returns: for each type of the list its counters and
\* the values computed from them (the order of the keys is left out)
group_by_type(orders) ==
    [t \in {Get(orders[i], "type", OtherType) : i \in 1..Len(orders)} |->
        LET of_type   == SelectSeq(orders,
                            LAMBDA wo : Get(wo, "type", OtherType) = t)
            count     == Len(of_type)
            completed == Len(SelectSeq(of_type, is_completed))
            total_duration == PySum(durations_of(of_type))
            total_cost ==
                PySum([i \in 1..count |-> Get(of_type[i], "cost", Zero)])
        IN  [count           |-> count,
             completed       |-> completed,
             total_duration  |-> total_duration,
             total_cost      |-> PyRound(total_cost, 2),
             completion_rate |->
                 IF count > 0
                 THEN PyRound(RatMul(PyDiv(Int2Rat(completed), Int2Rat(count)),
                                     Int2Rat(100)), 1)
                 ELSE Zero,
             avg_duration    |->
                 IF completed > 0
                 THEN PyRound(PyDiv(total_duration, Int2Rat(completed)), 2)
                 ELSE Zero]]

\* the dict calculate_personnel_performance returns, by staff
calculate_personnel_performance(orders) ==
    [staff \in {Get(orders[i], "staff", UnknownStaff) : i \in 1..Len(orders)} |->
        LET of_staff  == SelectSeq(orders,
                            LAMBDA wo : Get(wo, "staff", UnknownStaff) = staff)
            count     == Len(of_staff)
            completed_orders == SelectSeq(of_staff, is_completed)
            durations == durations_of(completed_orders)
        IN  [total_orders    |-> count,
             completed       |-> Len(completed_orders),
             completion_rate |->
                 IF count > 0
                 THEN PyRound(RatMul(PyDiv(Int2Rat(Len(completed_orders)),
                                           Int2Rat(count)),
                                     Int2Rat(100)), 1)
                 ELSE Zero,
             total_duration  |-> PyRound(PySum(durations), 2),
             avg_duration    |-> IF durations # <<>>
                                 THEN PyRound(PyMean(durations), 2) ELSE Zero,
             min_duration    |-> IF durations # <<>>
                                 THEN PyRound(PyMin(durations), 2) ELSE Zero,
             max_duration    |-> IF durations # <<>>
                                 THEN PyRound(PyMax(durations), 2) ELSE Zero]]

AddWorkOrder ==
    /\ Len(work_orders) < MaxWorkOrders
    /\ \E work_order \in WorkOrders :
          /\ work_orders' = Append(work_orders, work_order)
          /\ call' = [op |-> "add_work_order", work_order |-> work_order]
    /\ ret' = [value |-> None]
    /\ UNCHANGED <<dma_data, dma_keys, registered>>

GroupByType ==
    /\ call' = [op |-> "group_by_type"]
    /\ ret' = [groups |-> group_by_type(work_orders)]
    /\ UNCHANGED <<work_orders, dma_data, dma_keys, registered>>

CalculatePersonnelPerformance ==
    /\ call' = [op |-> "calculate_personnel_performance"]
    /\ ret' = [personnel |-> calculate_personnel_performance(work_orders)]
    /\ UNCHANGED <<work_orders, dma_data, dma_keys, registered>>

----------------------------------------------------------------------------

\* LeakageCalculator(): an empty store, nothing called yet
Init ==
    /\ dma_data = <<>>
    /\ dma_keys = <<>>
    /\ registered = <<>>
    /\ work_orders = <<>>
    /\ call = [op |-> "__init__"]
    /\ ret = [value |-> None]

\* the store and its reports
Next == AddDmaData \/ GenerateDmaReport \/ ExportDmaReport

Spec == Init /\ [][Next]_vars

\* a fresh calculator and one call of a calculation about to run
InitCall(calls) ==
    /\ dma_data = <<>>
    /\ dma_keys = <<>>
    /\ registered = <<>>
    /\ work_orders = <<>>
    /\ call \in calls
    /\ ret = Pending

\* assess_leakage_status on every rate of RateInputs
InitAssess ==
    InitCall([op : {"assess_leakage_status"}, leakage_rate : RateInputs])

NextAssess == AssessLeakageStatus

SpecAssess == InitAssess /\ [][NextAssess]_vars

\* detect_pressure_anomaly on every series and threshold
InitPressure ==
    InitCall([op : {"detect_pressure_anomaly"},
              pressure_data : PressureSeries, threshold : Thresholds])

NextPressure == DetectPressureAnomaly

SpecPressure == InitPressure /\ [][NextPressure]_vars

\* calculate_mnf on every series and window
InitMnf ==
    InitCall([op : {"calculate_mnf"},
              flow_data : FlowSeries, hour_range : HourRanges])

NextMnf == CalculateMnf

SpecMnf == InitMnf /\ [][NextMnf]_vars

\* two add_dma_data calls in the order main makes its own, with arguments of
\* AddDmaData: the calculations are called on the store after none, one and
\* both of them
FrameAdds ==
    << [dma_id |-> "DMA-001", total_flow |-> Int2Rat(12),
        user_flows |-> <<Int2Rat(1), Int2Rat(9)>>],
       [dma_id |-> "DMA-002", total_flow |-> Int2Rat(0),
        user_flows |-> <<Int2Rat(9)>>] >>

RECURSIVE store_after(_)
\* the store after the add_dma_data calls of adds, in order
store_after(adds) ==
    IF adds = <<>>
    THEN [dma_data |-> <<>>, dma_keys |-> <<>>, registered |-> <<>>]
    ELSE LET before == store_after(SubSeq(adds, 1, Len(adds) - 1))
             add    == adds[Len(adds)]
             args   == [total_flow |-> add.total_flow,
                        user_flows |-> add.user_flows]
         IN  [dma_data   |-> store_put(before.dma_data, add.dma_id,
                                       dma_record(add.total_flow, add.user_flows)),
              dma_keys   |-> keys_put(before.dma_keys, add.dma_id),
              registered |-> [k \in DOMAIN before.registered \cup {add.dma_id} |->
                                 IF k = add.dma_id THEN args
                                 ELSE before.registered[k]]]

\* every call of a calculation, on a calculator with some zones registered
InitFrame ==
    /\ \E n \in 0..Len(FrameAdds) :
          LET st == store_after(SubSeq(FrameAdds, 1, n))
          IN  /\ dma_data = st.dma_data
              /\ dma_keys = st.dma_keys
              /\ registered = st.registered
    /\ work_orders = <<>>
    /\ call \in [op : {"assess_leakage_status"}, leakage_rate : RateInputs]
          \cup [op : {"detect_pressure_anomaly"},
                pressure_data : PressureSeries, threshold : Thresholds]
          \cup [op : {"calculate_mnf"},
                flow_data : FlowSeries, hour_range : HourRanges]
    /\ ret = Pending

\* the calculations, the report and the export
NextFrame ==
    \/ AssessLeakageStatus
    \/ DetectPressureAnomaly
    \/ CalculateMnf
    \/ GenerateDmaReport
    \/ ExportDmaReport

SpecFrame == InitFrame /\ [][NextFrame]_vars

\* WorkOrderStatistics(): an empty list of orders
InitWorkOrder ==
    /\ work_orders = <<>>
    /\ dma_data = <<>>
    /\ dma_keys = <<>>
    /\ registered = <<>>
    /\ call = [op |-> "__init__"]
    /\ ret = [value |-> None]

NextWorkOrder == AddWorkOrder \/ GroupByType \/ CalculatePersonnelPerformance

SpecWorkOrder == InitWorkOrder /\ [][NextWorkOrder]_vars

----------------------------------------------------------------------------
(* Properties of the DMA store (Spec) *)

\* C1: every record of the store balances against the arguments of the latest
\* registration of its zone: user_total is the sum of those user_flows and
\* leakage is that total_flow minus the sum.
C1_LeakageBalance ==
    /\ DOMAIN registered = DOMAIN dma_data
    /\ \A z \in DOMAIN dma_data :
          LET r == dma_data[z]
              a == registered[z]
          IN  /\ r.total_flow = a.total_flow
              /\ r.user_flows = a.user_flows
              /\ r.user_total = PySum(a.user_flows)
              /\ RatAdd(r.leakage, PySum(a.user_flows)) = a.total_flow

\* a zone registered again, now with two different user flows
C1_Witness ==
    /\ call.op = "add_dma_data"
    /\ Len(dma_keys) = 2 /\ dma_keys[1] = call.dma_id
    /\ Len(call.user_flows) = 2
    /\ call.user_flows[1] # call.user_flows[2]
    /\ dma_data[call.dma_id].leakage # call.total_flow

\* C2: leakage_rate is leakage / total_flow * 100 when total_flow > 0 and 0
\* otherwise, and add_dma_data never raises, a zero total_flow included.
C2_LeakageRate ==
    /\ call.op = "add_dma_data" =>
          /\ ~IsError(ret)
          /\ call.dma_id \in DOMAIN dma_data
          /\ dma_data[call.dma_id].total_flow = call.total_flow
    /\ \A z \in DOMAIN dma_data :
          LET r == dma_data[z]
          IN  IF r.total_flow.n > 0
              THEN r.leakage_rate.n * r.total_flow.n * r.leakage.d
                      = 100 * r.leakage.n * r.total_flow.d * r.leakage_rate.d
              ELSE r.leakage_rate = Zero

\* a zone just registered with total_flow 0 and some user flows
C2_Witness ==
    /\ call.op = "add_dma_data"
    /\ call.total_flow = Zero
    /\ call.user_flows # <<>>
    /\ ~IsError(ret)
    /\ dma_data[call.dma_id].leakage_rate = Zero
    /\ \E z \in DOMAIN dma_data :
          /\ dma_data[z].total_flow.n > 0
          /\ dma_data[z].leakage_rate.d # 1

\* C3: add_dma_data replaces: the call leaves one record for its dma_id, every
\* field of it derived from the call's arguments alone, leaves every other
\* record as it was, and a call that repeats the call before it changes
\* nothing.
C3_RegisterReplaces ==
    [][ call'.op = "add_dma_data" =>
          LET z == call'.dma_id
              r == dma_data'[z]
          IN  /\ DOMAIN dma_data' = DOMAIN dma_data \cup {z}
              /\ \A k \in DOMAIN dma_data \ {z} : dma_data'[k] = dma_data[k]
              /\ r.total_flow = call'.total_flow
              /\ r.user_flows = call'.user_flows
              /\ r.user_total = PySum(call'.user_flows)
              /\ RatAdd(r.leakage, r.user_total) = call'.total_flow
              /\ IF call'.total_flow.n > 0
                 THEN r.leakage_rate.n * r.total_flow.n * r.leakage.d
                         = 100 * r.leakage.n * r.total_flow.d * r.leakage_rate.d
                 ELSE r.leakage_rate = Zero
              /\ (call' = call => dma_data' = dma_data /\ dma_keys' = dma_keys)
      ]_vars

\* the zone inserted first was just registered again, next to another zone
C3_Witness ==
    /\ call.op = "add_dma_data"
    /\ Len(dma_keys) = 2 /\ dma_keys[1] = call.dma_id
    /\ dma_data[call.dma_id].user_flows = call.user_flows
    /\ dma_data[dma_keys[2]].user_flows # call.user_flows

\* C9: a lookup of a dma_id that was never registered fails with an error
\* (generate_dma_report with that dma_id is the lookup by id the code has).
C9_UnregisteredLookupFails ==
    (/\ call.op = "generate_dma_report"
     /\ Truthy(call.dma_id)
     /\ call.dma_id \notin DOMAIN dma_data) => IsError(ret)

----------------------------------------------------------------------------
(* Properties of assess_leakage_status (SpecAssess) *)

\* C4: every rate gets exactly one of the four tiers, each tier including its
\* lower boundary: excellent/A below 10, good/B from 10 to below 15,
\* warning/C from 15 to below 25, critical/D from 25.
C4_ClassifyTiers ==
    (call.op = "assess_leakage_status" /\ Returned(ret)) =>
       LET n == call.leakage_rate.n
           d == call.leakage_rate.d
       IN  /\ ~IsError(ret)
           /\ <<ret.status, ret.level>> =
                 IF n < 10 * d THEN <<"excellent", "A">>
                 ELSE IF n < 15 * d THEN <<"good", "B">>
                 ELSE IF n < 25 * d THEN <<"warning", "C">>
                 ELSE <<"critical", "D">>
           /\ (n = 10 * d => ret.status = "good")
           /\ (n = 15 * d => ret.status = "warning")
           /\ (n = 25 * d => ret.status = "critical")

\* the rate 25 itself was classified
C4_Witness ==
    /\ call.op = "assess_leakage_status"
    /\ call.leakage_rate = Int2Rat(25)
    /\ Returned(ret)
    /\ ret.level = "D"

----------------------------------------------------------------------------
(* Properties of detect_pressure_anomaly (SpecPressure) *)

\* the call of detect_pressure_anomaly has returned or raised
DetectDone == call.op = "detect_pressure_anomaly" /\ Returned(ret)

\* the pressures of the call, their number and their sum
CallPressures ==
    [i \in 1..Len(call.pressure_data) |-> call.pressure_data[i].pressure]

\* the report lists the sample at position i (index i - 1)
Flagged(i) ==
    \E j \in 1..Len(ret.anomalies) : ret.anomalies[j].index = i - 1

\* n * pressure_i - sum, in absolute value: |pressure_i - mean| times n
ScaledDistance(i) ==
    RatAbs(RatSub(RatMul(Int2Rat(Len(CallPressures)), CallPressures[i]),
                  PySum(CallPressures)))

\* C5 as stated: a sample is reported iff |pressure - mean| / mean exceeds the
\* threshold, the deviation being 0 when the mean is 0 (and the quotient
\* itself for every other mean, a negative one included).
C5_DeviationZeroOnlyAtZeroMean ==
    (DetectDone /\ call.pressure_data # <<>>) =>
       /\ ~IsError(ret)
       /\ \A i \in 1..Len(CallPressures) :
             Flagged(i) <=>
                RatGt(IF PySum(CallPressures) = Zero THEN Zero
                      ELSE PyDiv(ScaledDistance(i), PySum(CallPressures)),
                      call.threshold)

\* C5, amended: a sample is reported iff its relative deviation strictly
\* exceeds the threshold, where the deviation is |pressure - mean| / mean for
\* a positive mean and 0 for a mean that is zero or negative; a deviation
\* equal to the threshold is not reported.
C5_AnomalyIffDeviationExceeds ==
    (DetectDone /\ call.pressure_data # <<>>) =>
       /\ ~IsError(ret)
       /\ \A i \in 1..Len(CallPressures) :
             Flagged(i) <=>
                IF PySum(CallPressures).n > 0
                THEN RatGt(ScaledDistance(i),
                           RatMul(call.threshold, PySum(CallPressures)))
                ELSE RatGt(Zero, call.threshold)

\* a positive threshold that one sample's deviation equals, so that it is not
\* reported, while another sample of the series is
C5_Witness ==
    /\ DetectDone
    /\ ~IsError(ret)
    /\ call.threshold.n > 0
    /\ PySum(CallPressures).n > 0
    /\ \E i \in 1..Len(CallPressures) :
          /\ ScaledDistance(i) = RatMul(call.threshold, PySum(CallPressures))
          /\ ~Flagged(i)
    /\ \E i \in 1..Len(CallPressures) : Flagged(i)

\* C8: detect_pressure_anomaly raises on an empty list of samples
\* (statistics.StatisticsError, no report), and raises on no other list.
C8_EmptyInputFails ==
    DetectDone =>
       /\ IsError(ret) <=> call.pressure_data = <<>>
       /\ IsError(ret) => ret = Raise("StatisticsError")

\* the call with no samples has raised
C8_Witness ==
    /\ DetectDone
    /\ call.pressure_data = <<>>
    /\ IsError(ret)

----------------------------------------------------------------------------
(* Properties of calculate_mnf (SpecMnf) *)

\* the call of calculate_mnf has returned or raised
MnfDone == call.op = "calculate_mnf" /\ Returned(ret)

\* every time of the series has an integer before its first ':'
AllTimesParse ==
    \A i \in 1..Len(call.flow_data) : ~IsError(hour_of(call.flow_data[i].time))

\* the positions of the samples whose hour h has start_hour <= h < end_hour
InWindow ==
    {i \in 1..Len(call.flow_data) :
        /\ ~IsError(hour_of(call.flow_data[i].time))
        /\ call.hour_range[1] <= hour_of(call.flow_data[i].time).int
        /\ hour_of(call.flow_data[i].time).int < call.hour_range[2]}

\* the flows of those samples, in input order
WindowFlows ==
    [k \in 1..Cardinality(InWindow) |->
        call.flow_data[CHOOSE i \in InWindow :
                          Cardinality({j \in InWindow : j < i}) = k - 1].flow]

\* r is x to two decimals: a multiple of 1/100 no further than 1/200 from x
IsRounded2(r, x) ==
    /\ 100 % r.d = 0
    /\ RatLe(RatAbs(RatSub(r, x)), Rat(1, 200))

\* C6 as stated: with a sample in the window, data_points is the number of
\* samples selected, mnf is the minimum of the selected values and avg_flow
\* is their arithmetic mean.
C6_MnfExactMinAndMean ==
    (MnfDone /\ AllTimesParse /\ InWindow # {}) =>
       /\ ~IsError(ret)
       /\ ret.data_points = Cardinality(InWindow)
       /\ ret.mnf = PyMin(WindowFlows)
       /\ ret.avg_flow = PyDiv(PySum(WindowFlows), Int2Rat(Len(WindowFlows)))

\* C6, amended: calculate_mnf selects exactly the samples whose hour h has
\* start_hour <= h < end_hour, in input order; with a sample selected,
\* data_points is their number, flow_values their values, mnf their minimum
\* and avg_flow their mean, each value rounded to two decimals.  The samples
\* 02:00, 02:30, 03:00 with 10, 8, 12 give 8, 10 and 3, the one at 04:00
\* being left out.
C6_MnfWindowMinMean ==
    (MnfDone /\ AllTimesParse /\ InWindow # {}) =>
       /\ ~IsError(ret)
       /\ ret.data_points = Cardinality(InWindow)
       /\ Len(ret.flow_values) = Cardinality(InWindow)
       /\ \A k \in 1..Len(WindowFlows) :
             IsRounded2(ret.flow_values[k], WindowFlows[k])
       /\ \E k \in 1..Len(WindowFlows) :
             /\ \A j \in 1..Len(WindowFlows) : RatLe(WindowFlows[k], WindowFlows[j])
             /\ IsRounded2(ret.mnf, WindowFlows[k])
       /\ 100 % ret.avg_flow.d = 0
       /\ RatLe(RatAbs(RatSub(RatMul(ret.avg_flow, Int2Rat(Len(WindowFlows))),
                              PySum(WindowFlows))),
                Rat(Len(WindowFlows), 200))
       /\ (call.flow_data = ExampleFlowData /\ call.hour_range = DefaultHourRange) =>
             /\ ret.mnf = Int2Rat(8)
             /\ ret.avg_flow = Int2Rat(10)
             /\ ret.data_points = 3

\* a sample at the end hour of the window was left out, and the minimum of
\* the samples selected was rounded
C6_Witness ==
    /\ MnfDone
    /\ AllTimesParse
    /\ InWindow # {}
    /\ \E i \in 1..Len(call.flow_data) :
          hour_of(call.flow_data[i].time).int = call.hour_range[2]
    /\ ~IsError(ret)
    /\ ret.data_points < Len(call.flow_data)
    /\ ret.mnf # PyMin(WindowFlows)

\* C7: with no sample in the window (the empty series included) the call
\* returns data_points 0, mnf 0, avg_flow 0 and an empty flow_values.
C7_EmptyWindowResult ==
    (MnfDone /\ AllTimesParse /\ InWindow = {}) =>
       /\ ~IsError(ret)
       /\ ret.data_points = 0
       /\ ret.mnf = Zero
       /\ ret.avg_flow = Zero
       /\ "flow_values" \in DOMAIN ret
       /\ ret.flow_values = <<>>

\* a time with a separator and two digits before it
HasTwoDigitHour(time) ==
    /\ Positions(time, ":") # {}
    /\ Len(split_first(time)) = 2
    /\ \A i \in 1..2 : split_first(time)[i] \in Digits

\* C10: the call fails whenever some sample's time has no ':' separator or
\* no two-digit hour before it, wherever the sample sits.
C10_MalformedTimeFails ==
    (/\ MnfDone
     /\ \E i \in 1..Len(call.flow_data) : ~HasTwoDigitHour(call.flow_data[i].time))
       => IsError(ret)

----------------------------------------------------------------------------
(* Properties of the summaries (Spec) *)

\* generate_dma_report was the latest call
ReportDone == call.op = "generate_dma_report"

\* export_dma_report was the latest call
ExportDone == call.op = "export_dma_report"

CriticalZones ==
    {z \in DOMAIN dma_data :
        assess_leakage_status(dma_data[z].leakage_rate).status = "critical"}

\* C12: the critical count of the report's summary is the number of stored
\* zones whose leakage rate assess_leakage_status classifies as critical
\* (level D), a rate of exactly 25 included.
C12_CriticalCountMatchesClassify ==
    (ReportDone /\ dma_data # <<>>) =>
        /\ Len(ret.summary) = 1
        /\ ret.summary[1].critical_count = Cardinality(CriticalZones)
        /\ \A z \in DOMAIN dma_data :
              dma_data[z].leakage_rate = Int2Rat(25) => z \in CriticalZones

\* a report over two zones, one at exactly 25 percent and one below
C12_Witness ==
    /\ ReportDone
    /\ Cardinality(DOMAIN dma_data) = 2
    /\ \E z \in DOMAIN dma_data : dma_data[z].leakage_rate = Int2Rat(25)
    /\ ret.summary[1].critical_count = 1

----------------------------------------------------------------------------
(* Urgency of assess_leakage_status (SpecAssess) *)

\* the urgency that belongs to a status tier
UrgencyOfStatus(status) ==
    CASE status = "excellent" -> "low"
      [] status = "good"      -> "low"
      [] status = "warning"   -> "medium"
      [] status = "critical"  -> "high"

\* C14: the urgency assess_leakage_status returns is the one of the status
\* tier it returns, low for excellent and good, medium for warning, high for
\* critical, at the rates of exactly 15 and 25 too.
C14_UrgencyMatchesStatus ==
    Returned(ret) =>
        /\ ret.urgency = UrgencyOfStatus(ret.status)
        /\ call.leakage_rate = Int2Rat(15) =>
              (ret.status = "warning" /\ ret.urgency = "medium")
        /\ call.leakage_rate = Int2Rat(25) =>
              (ret.status = "critical" /\ ret.urgency = "high")

\* the assessment of a rate of exactly 15 percent
C14_Witness ==
    /\ Returned(ret)
    /\ call.leakage_rate = Int2Rat(15)
    /\ ret.urgency = "medium"

----------------------------------------------------------------------------
(* The anomaly list of detect_pressure_anomaly (SpecPressure) *)

\* C15: the anomalies of a report are a subsequence of the input series: the
\* index values are positions of the input and strictly increasing (so no
\* index occurs twice), each entry carries the time and the pressure of the
\* input sample at its index, and anomaly_count is the length of the list
\* and at most the number of samples.
C15_AnomaliesAreSubsequence ==
    (DetectDone /\ ~IsError(ret)) =>
        /\ \A j \in 1..Len(ret.anomalies) :
              /\ ret.anomalies[j].index \in 0..(Len(call.pressure_data) - 1)
              /\ ret.anomalies[j].time =
                    call.pressure_data[ret.anomalies[j].index + 1].time
              /\ ret.anomalies[j].pressure =
                    call.pressure_data[ret.anomalies[j].index + 1].pressure
        /\ \A j, k \in 1..Len(ret.anomalies) :
              j < k => ret.anomalies[j].index < ret.anomalies[k].index
        /\ ret.anomaly_count = Len(ret.anomalies)
        /\ ret.anomaly_count <= Len(call.pressure_data)

\* a report that lists the first and the last of three samples, not the
\* second
C15_Witness ==
    /\ DetectDone
    /\ Len(call.pressure_data) = 3
    /\ ret.anomaly_count = 2
    /\ ret.anomalies[1].index = 0
    /\ ret.anomalies[2].index = 2

----------------------------------------------------------------------------
(* Average and total of the summaries (Spec) *)

RECURSIVE SumOf(_)
\* the sum of the values of a function from zones to numbers
SumOf(f) ==
    IF DOMAIN f = {} THEN Zero
    ELSE LET z == CHOOSE k \in DOMAIN f : TRUE
         IN  RatAdd(f[z], SumOf([k \in DOMAIN f \ {z} |-> f[k]]))

\* leakage and rate of a zone by the arguments of its latest add_dma_data
LatestLeakage(z) ==
    RatSub(registered[z].total_flow, PySum(registered[z].user_flows))
LatestRate(z) ==
    IF registered[z].total_flow.n > 0
    THEN RatMul(PyDiv(LatestLeakage(z), registered[z].total_flow), Int2Rat(100))
    ELSE Zero

\* the sum of the zones' leakage and the unweighted mean of their rates, each
\* zone taken once with the values of its latest registration
ExactTotalLeakage == SumOf([z \in DOMAIN registered |-> LatestLeakage(z)])
ExactMeanRate ==
    PyDiv(SumOf([z \in DOMAIN registered |-> LatestRate(z)]),
          Int2Rat(Cardinality(DOMAIN registered)))

\* the summary of the latest call: the block of the report or the summary of
\* the exported file
LatestSummary ==
    IF ReportDone THEN ret.summary[1] ELSE ret.file.summary

\* C16 as stated: for a non-empty store avg_leakage_rate is the unweighted
\* mean of the stored rates and total_leakage the sum of the stored leakage,
\* a zone registered again counting once with its latest record.
C16_SummaryExactMeanAndSum ==
    ((ReportDone \/ ExportDone) /\ dma_data # <<>>) =>
        /\ LatestSummary.total_dmas = Cardinality(DOMAIN registered)
        /\ LatestSummary.avg_leakage_rate = ExactMeanRate
        /\ LatestSummary.total_leakage = ExactTotalLeakage

\* C16, amended: for a non-empty store avg_leakage_rate is the unweighted
\* mean of the stored rates rounded to two decimals and total_leakage the sum
\* of the stored leakage rounded to two decimals, in the report and in the
\* exported file, a zone registered again counting once with its latest
\* record.
C16_SummaryRoundedMeanAndSum ==
    ((ReportDone \/ ExportDone) /\ dma_data # <<>>) =>
        /\ LatestSummary.total_dmas = Cardinality(DOMAIN registered)
        /\ IsRounded2(LatestSummary.avg_leakage_rate, ExactMeanRate)
        /\ IsRounded2(LatestSummary.total_leakage, ExactTotalLeakage)

\* a report over two zones of different total flow whose mean rate has more
\* than two decimals
C16_Witness ==
    /\ ReportDone
    /\ Cardinality(DOMAIN registered) = 2
    /\ \E y, z \in DOMAIN registered :
          registered[y].total_flow # registered[z].total_flow
    /\ 100 % ExactMeanRate.d # 0
    /\ IsRounded2(ret.summary[1].avg_leakage_rate, ExactMeanRate)

----------------------------------------------------------------------------
(* Reports for one zone, and zones of no positive loss (Spec) *)

\* C18: generate_dma_report with a dma_id lists at most the section of that
\* zone, none and no exception when the zone is not registered, while the
\* summary block is over every zone of the store.
C18_OneZoneReportWholeSummary ==
    (ReportDone /\ Truthy(call.dma_id)) =>
        /\ ~IsError(ret)
        /\ Len(ret.sections) <= 1
        /\ \A i \in 1..Len(ret.sections) : ret.sections[i].dma = call.dma_id
        /\ Len(ret.sections) = 1 <=> call.dma_id \in DOMAIN dma_data
        /\ Len(ret.summary) = 1 <=> dma_data # <<>>
        /\ dma_data # <<>> =>
              /\ ret.summary[1].total_dmas = Cardinality(DOMAIN dma_data)
              /\ IsRounded2(ret.summary[1].total_leakage, ExactTotalLeakage)
              /\ IsRounded2(ret.summary[1].avg_leakage_rate, ExactMeanRate)

\* a report for one of two registered zones
C18_Witness ==
    /\ ReportDone
    /\ Truthy(call.dma_id)
    /\ Cardinality(DOMAIN dma_data) = 2
    /\ Len(ret.sections) = 1
    /\ ret.summary[1].total_dmas = 2

\* the latest registration of z billed more than a positive inflow
Overbilled(z) ==
    /\ registered[z].total_flow.n > 0
    /\ RatGt(PySum(registered[z].user_flows), registered[z].total_flow)

\* the latest registration of z had an inflow of zero or less
NoInflow(z) == registered[z].total_flow.n <= 0

\* C19: add_dma_data accepts a zone whose user flows sum to more than a
\* positive total_flow, storing a negative leakage and a negative rate, and a
\* zone whose total_flow is zero or less, storing rate 0; neither raises,
\* assess_leakage_status puts the stored rate in the excellent tier (level A,
\* low urgency), and the critical count of a report counts no such zone.
C19_NoPositiveLossIsExcellent ==
    /\ call.op = "add_dma_data" => ~IsError(ret)
    /\ DOMAIN dma_data = DOMAIN registered
    /\ \A z \in DOMAIN registered :
          /\ Overbilled(z) =>
                /\ dma_data[z].leakage.n < 0
                /\ dma_data[z].leakage_rate.n < 0
          /\ NoInflow(z) => dma_data[z].leakage_rate = Zero
          /\ (Overbilled(z) \/ NoInflow(z)) =>
                LET a == assess_leakage_status(dma_data[z].leakage_rate)
                IN  a.status = "excellent" /\ a.level = "A" /\ a.urgency = "low"
    /\ (ReportDone /\ dma_data # <<>>) =>
          ret.summary[1].critical_count <=
             Cardinality({z \in DOMAIN registered :
                             ~Overbilled(z) /\ ~NoInflow(z)})

\* a report over an overbilled zone and a zone of negative inflow
C19_Witness ==
    /\ ReportDone
    /\ \E y, z \in DOMAIN registered :
          /\ Overbilled(y)
          /\ registered[z].total_flow.n < 0
          /\ dma_data[y].leakage_rate.n < 0
          /\ dma_data[z].leakage_rate = Zero
    /\ ret.summary[1].critical_count = 0

----------------------------------------------------------------------------
(* Bounds on the result of calculate_mnf (SpecMnf) *)

\* C17: when calculate_mnf selects at least one sample, mnf is at most
\* avg_flow, before rounding and in the rounded result, mnf is one of the
\* selected values as the result lists them in flow_values, data_points is
\* the length of flow_values and at most the number of input samples.
C17_MnfResultBounds ==
    (MnfDone /\ ~IsError(ret) /\ InWindow # {}) =>
        /\ \E k \in 1..Len(WindowFlows) :
              /\ IsRounded2(ret.mnf, WindowFlows[k])
              /\ RatLe(RatMul(WindowFlows[k], Int2Rat(Len(WindowFlows))),
                       PySum(WindowFlows))
        /\ RatLe(ret.mnf, ret.avg_flow)
        /\ \E k \in 1..Len(ret.flow_values) : ret.mnf = ret.flow_values[k]
        /\ ret.data_points = Len(ret.flow_values)
        /\ ret.data_points <= Len(call.flow_data)

\* samples of different flow selected, and a sample of the series left out
C17_Witness ==
    /\ MnfDone
    /\ ~IsError(ret)
    /\ ret.data_points >= 2
    /\ ret.data_points < Len(call.flow_data)
    /\ RatLt(ret.mnf, ret.avg_flow)

----------------------------------------------------------------------------
(* The store under the calculations, the report and the export (SpecFrame) *)

\* C13: the store is written by add_dma_data alone: calculate_mnf,
\* detect_pressure_anomaly, assess_leakage_status, generate_dma_report and
\* export_dma_report, returning or raising, leave the registered zone ids
\* and every stored record as they were, so that no sample of a call is kept
\* in the calculator.
C13_OnlyAddWritesStore ==
    [][ call'.op \in {"calculate_mnf", "detect_pressure_anomaly",
                      "assess_leakage_status", "generate_dma_report",
                      "export_dma_report"}
          => /\ dma_data' = dma_data
             /\ dma_keys' = dma_keys
             /\ DOMAIN dma_data' = {dma_keys'[i] : i \in 1..Len(dma_keys')} ]_vars

\* calculate_mnf raised on a calculator with two zones registered
C13_Witness ==
    /\ call.op = "calculate_mnf"
    /\ IsError(ret)
    /\ Cardinality(DOMAIN dma_data) = 2

----------------------------------------------------------------------------
(* Statistics by order type (SpecWorkOrder) *)

\* the completed orders of a type, and the completed orders of the list
CompletedOfType(t) ==
    SelectSeq(work_orders,
              LAMBDA wo : Get(wo, "type", OtherType) = t /\ is_completed(wo))

\* every order of the list has type t and staff s
AllOf(t, s) ==
    \A i \in 1..Len(work_orders) :
        /\ Get(work_orders[i], "type", OtherType) = t
        /\ Get(work_orders[i], "staff", UnknownStaff) = s

\* C20: for every type group_by_type reports completed <= count and an
\* avg_duration that is the total duration_hours of the completed orders of
\* the type over their number, to two decimals, and 0 when none is completed:
\* the average calculate_personnel_performance reports for a staff member who
\* worked all the orders; the duration_hours of an order that is not
\* completed does not enter it.
C20_AvgDurationOverCompleted ==
    call.op = "group_by_type" =>
        \A t \in DOMAIN ret.groups :
            LET done == CompletedOfType(t)
            IN  /\ ret.groups[t].completed <= ret.groups[t].count
                /\ ret.groups[t].completed = Len(done)
                /\ IF Len(done) = 0
                   THEN ret.groups[t].avg_duration = Zero
                   ELSE IsRounded2(ret.groups[t].avg_duration,
                                   PyDiv(PySum(durations_of(done)),
                                         Int2Rat(Len(done))))
                /\ \A s \in StaffNames \cup {UnknownStaff} :
                      AllOf(t, s) =>
                         ret.groups[t].avg_duration =
                            calculate_personnel_performance(work_orders)[s].avg_duration

=============================================================================
